---- MODULE Spec2Model ----
(***************************************************************************)
(* The nutrition calculator component: the form state, the condition       *)
(* toggles and calculateResults, in its two variants:                      *)
(*   "tiered": src/unnamed/part_000 (BMI-tiered adjusted body weight)      *)
(*   "gated" : src/app/components/NutritionCalculator.tsx, second          *)
(*             component (adjusted body weight only above 1.2 x IBW)       *)
(*                                                                         *)
(* JavaScript numbers are modelled exactly.  Every number the code         *)
(* computes from integer form fields is a rational with a known            *)
(* denominator; it is kept as an integer numerator in six limbs of base    *)
(* 10^4 and rounded as Math.round does: floor(x + 1/2).  For the inputs of *)
(* the model no value lies within 10^-9 of a rounding tie or of a BMI      *)
(* threshold, so the doubles of the code round the same way.               *)
(***************************************************************************)
EXTENDS Integers, Sequences, FiniteSets, TLC

VARIABLES
  variant,         \* which component is mounted; fixed from the start
  formData,        \* useState<FormData>
  results,         \* useState<Results | null>
  showReferences,  \* useState(false)
  submitted,       \* history: the formData of the last submit, or null
  toggledOdd       \* history: the conditions toggled an odd number of times

vars == <<variant, formData, results, showReferences, submitted, toggledOdd>>

---------------------------------------------------------------------------
(* Bounds of the model.                                                    *)

\* Largest heightFeet entered.
MaxFeet == 6

---------------------------------------------------------------------------
(* Exact integer arithmetic beyond 32 bits: little-endian limbs, the low   *)
(* five in 0..Base-1, the sixth carrying the sign.                         *)

Base == 100 * 100

BigNorm(x) ==
  LET y2 == x[2] + (x[1] \div Base)
      y3 == x[3] + (y2 \div Base)
      y4 == x[4] + (y3 \div Base)
      y5 == x[5] + (y4 \div Base)
      y6 == x[6] + (y5 \div Base)
  IN  <<x[1] % Base, y2 % Base, y3 % Base, y4 % Base, y5 % Base, y6>>

BigFromInt(n) == BigNorm(<<n, 0, 0, 0, 0, 0>>)

BigAdd(x, y) == BigNorm([i \in 1..6 |-> x[i] + y[i]])

BigSub(x, y) == BigNorm([i \in 1..6 |-> x[i] - y[i]])

\* x * k for a small k (|k| < 200000).
BigMul(x, k) == BigNorm([i \in 1..6 |-> x[i] * k])

\* floor(x / d) for a small d (0 < d < 200000).
BigDiv(x, d) ==
  LET n5 == (x[6] % d) * Base + x[5]
      n4 == (n5 % d) * Base + x[4]
      n3 == (n4 % d) * Base + x[3]
      n2 == (n3 % d) * Base + x[2]
      n1 == (n2 % d) * Base + x[1]
  IN  <<n1 \div d, n2 \div d, n3 \div d, n4 \div d, n5 \div d, x[6] \div d>>

BigIsNeg(x) == x[6] < 0

BigIsZero(x) == \A i \in 1..6 : x[i] = 0

BigLess(x, y) == BigIsNeg(BigSub(x, y))

\* The value of a small x (|x| < 2 * 10^9) as an integer.
BigLow(m) == m[1] + Base * m[2] + Base * Base * m[3]

BigToInt(x) == IF BigIsNeg(x) THEN -BigLow(BigMul(x, -1)) ELSE BigLow(x)

\* floor(x / Base^k): the low k limbs dropped.
BigShiftDown(x, k) == BigNorm([i \in 1..6 |-> IF i + k <= 6 THEN x[i + k] ELSE 0])

\* 10^n, n < 24.
BigPow10(n) == [i \in 1..6 |-> IF i = (n \div 4) + 1 THEN 10 ^ (n % 4) ELSE 0]

\* x * 10^n, n <= 15.
BigMulPow10(x, n) ==
  BigMul(BigMul(BigMul(x, 10 ^ (IF n <= 5 THEN n ELSE 5)),
                10 ^ (IF n <= 5 THEN 0 ELSE IF n <= 10 THEN n - 5 ELSE 5)),
         10 ^ (IF n <= 10 THEN 0 ELSE n - 10))

\* floor(x / (2 * 10^n)), n < 24.
BigDivTwicePow10(x, n) == BigDiv(BigShiftDown(x, n \div 4), 2 * 10 ^ (n % 4))

\* x * k for any 32-bit k >= 0: k = kh * Base + kl.
BigShiftUp(x) == <<0, x[1], x[2], x[3], x[4], x[5] + x[6] * Base>>

BigMulWide(x, k) ==
  BigAdd(BigMul(x, k % Base), BigShiftUp(BigMul(x, k \div Base)))

---------------------------------------------------------------------------
(* Decimal numbers: n / 10^e, n a big integer.  Sums, differences and      *)
(* products of decimals are decimals, so this arithmetic is exact.         *)

Dec(m, e) == [n |-> BigFromInt(m), e |-> e]

DecInt(k) == Dec(k, 0)

\* The same value with exponent e2 >= x.e.
DecScale(x, e2) ==
  IF x.e >= e2 THEN x ELSE [n |-> BigMulPow10(x.n, e2 - x.e), e |-> e2]

DecMaxE(x, y) == IF x.e >= y.e THEN x.e ELSE y.e

DecAddAt(x, y, e) == [n |-> BigAdd(DecScale(x, e).n, DecScale(y, e).n), e |-> e]

DecAdd(x, y) == DecAddAt(x, y, DecMaxE(x, y))

DecSubAt(x, y, e) == [n |-> BigSub(DecScale(x, e).n, DecScale(y, e).n), e |-> e]

DecSub(x, y) == DecSubAt(x, y, DecMaxE(x, y))

\* n * k for any 32-bit k.
BigTimesInt(n, k) == IF k < 0 THEN BigMul(BigMulWide(n, -k), -1) ELSE BigMulWide(n, k)

\* x * y, the numerator of y within 32 bits.
DecTimes(x, y) == [n |-> BigTimesInt(x.n, BigToInt(y.n)), e |-> x.e + y.e]

DecLessAt(x, y, e) == BigLess(DecScale(x, e).n, DecScale(y, e).n)

DecLess(x, y) == DecLessAt(x, y, DecMaxE(x, y))

DecIsZero(x) == BigIsZero(x.n)

DecIsNeg(x) == BigIsNeg(x.n)

\* Math.round(x) = floor(x + 1/2) = floor((2n + 10^e) / (2 * 10^e)).
DecRound(x) ==
  BigToInt(BigDivTwicePow10(BigAdd(BigMul(x.n, 2), BigPow10(x.e)), x.e))

\* Math.round(x / y) for decimals x and y = r * r > 0 of one exponent, r a
\* small integer: floor((2 x.n + y.n) / (2 r r)).
DecRoundRatio(x, y, r) ==
  BigToInt(BigDiv(BigDiv(BigDiv(BigAdd(BigMul(x.n, 2), y.n), 2), r), r))

---------------------------------------------------------------------------
(* JavaScript values: a number is finite (a decimal), NaN or an infinity;  *)
(* undefined is what a lookup of a missing key gives.                      *)

JSNum(d) == [kind |-> "finite", d |-> d]

JSInt(k) == JSNum(DecInt(k))

NaN == [kind |-> "NaN", d |-> DecInt(0)]

Infinity == [kind |-> "Infinity", d |-> DecInt(0)]

NegInfinity == [kind |-> "-Infinity", d |-> DecInt(0)]

undefined == [kind |-> "undefined", d |-> DecInt(0)]

null == [kind |-> "null"]

IsFinite(x) == x.kind = "finite"

\* x + y, x - y, x * y of finite numbers; NaN when an operand is NaN or
\* undefined (no infinity reaches these operators).
JSAdd(x, y) ==
  IF IsFinite(x) /\ IsFinite(y) THEN JSNum(DecAdd(x.d, y.d)) ELSE NaN

JSSub(x, y) ==
  IF IsFinite(x) /\ IsFinite(y) THEN JSNum(DecSub(x.d, y.d)) ELSE NaN

JSMul(x, y) ==
  IF IsFinite(x) /\ IsFinite(y) THEN JSNum(DecTimes(x.d, y.d)) ELSE NaN

\* x > y: false when an operand is NaN.
JSGreater(x, y) == IsFinite(x) /\ IsFinite(y) /\ DecLess(y.d, x.d)

\* x / 100 and x / 10: a shift of the decimal point.
JSDivPow10(x, k) ==
  IF IsFinite(x) THEN JSNum([n |-> x.d.n, e |-> x.d.e + k]) ELSE x

\* Math.round: the infinities stay, anything else not finite gives NaN.
MathRound(x) ==
  CASE IsFinite(x) -> JSInt(DecRound(x.d))
    [] x.kind \in {"Infinity", "-Infinity"} -> x
    [] OTHER -> NaN

\* Strings that are parsed or formatted are sequences of characters.
Digits == <<"0", "1", "2", "3", "4", "5", "6", "7", "8", "9">>

DigitVal(c) == (CHOOSE i \in 1..10 : Digits[i] = c) - 1

IsDigit(c) == \E i \in 1..10 : Digits[i] = c

RECURSIVE DigitsVal(_)
DigitsVal(s) ==
  IF s = <<>> THEN 0
  ELSE 10 * DigitsVal(SubSeq(s, 1, Len(s) - 1)) + DigitVal(s[Len(s)])

RECURSIVE DigitPrefix(_)
\* The longest prefix of s made of digits.
DigitPrefix(s) ==
  IF s = <<>> \/ ~IsDigit(Head(s)) THEN <<>>
  ELSE <<Head(s)>> \o DigitPrefix(Tail(s))

\* parseInt of a string holding an optional sign and digits: NaN when no
\* digit follows the sign.
IsSigned(s) == s # <<>> /\ Head(s) = "-"

ParsedDigits(neg, body) ==
  IF body = <<>> THEN NaN
  ELSE JSInt(IF neg THEN -DigitsVal(body) ELSE DigitsVal(body))

parseInt(s) ==
  ParsedDigits(IsSigned(s), DigitPrefix(IF IsSigned(s) THEN Tail(s) ELSE s))

\* parseFloat: the number inputs have the default step, so the strings a
\* submit can carry are integers, which parseFloat reads as parseInt does.
parseFloat(s) == parseInt(s)

\* The number a string is coerced to in arithmetic: '' is 0.
ToNumber(s) == IF s = <<>> THEN JSInt(0) ELSE parseInt(s)

RECURSIVE NatToChars(_)
NatToChars(n) ==
  IF n < 10 THEN <<Digits[n + 1]>>
  ELSE NatToChars(n \div 10) \o <<Digits[(n % 10) + 1]>>

IntToChars(n) == IF n < 0 THEN <<"-">> \o NatToChars(-n) ELSE NatToChars(n)

\* String(x) of an integer-valued number, as a template literal inserts it.
ToChars(x) ==
  IF IsFinite(x) THEN IntToChars(BigToInt(x.d.n)) ELSE <<"N", "a", "N">>

---------------------------------------------------------------------------
(* The tables.                                                             *)

CONDITION_ADJUSTMENTS ==
  [diabetes |->
     [protein  |-> "1.2-1.5g/kg ABW",
      calories |-> "-500 kcal from TDEE",
      notes    |-> "Monitor carbohydrate distribution; consider 45-50% complex carbs",
      macros   |-> [protein |-> "20-25%", carbs |-> "45-50%", fat |-> "25-30%"]],
   kidney |->
     [protein  |-> "0.6-0.8g/kg ABW (non-dialysis)",
      calories |-> "30-35 kcal/kg IBW",
      notes    |-> "Monitor electrolytes; consider renal dietitian referral",
      macros   |-> [protein |-> "15-20%", carbs |-> "50-60%", fat |-> "25-30%"]],
   hypertension |->
     [protein  |-> "1.2-1.4g/kg ABW",
      calories |-> "-500 to -750 kcal from TDEE",
      notes    |-> "Follow DASH diet principles; sodium <2300mg",
      macros   |-> [protein |-> "18-22%", carbs |-> "50-55%", fat |-> "25-30%"]],
   liver |->
     [protein  |-> "1.2-1.5g/kg ABW",
      calories |-> "30-35 kcal/kg ABW",
      notes    |-> "Monitor ammonia levels; consider BCAA supplementation",
      macros   |-> [protein |-> "20-25%", carbs |-> "45-50%", fat |-> "25-30%"]]]

\* Object.keys(CONDITION_ADJUSTMENTS): the checkboxes, in table order.
ConditionKeys == <<"diabetes", "kidney", "hypertension", "liver">>

activityFactors ==
  [sedentary |-> JSNum(Dec(12, 1)),
   light     |-> JSNum(Dec(1375, 3)),
   moderate  |-> JSNum(Dec(155, 2)),
   very      |-> JSNum(Dec(1725, 3))]

calorieDeficits ==
  [conservative |-> JSInt(250), moderate |-> JSInt(500), aggressive |-> JSInt(750)]

\* table[key]: undefined for a key the table does not hold.
Lookup(table, key) ==
  IF key \in DOMAIN table THEN table[key] ELSE undefined

---------------------------------------------------------------------------
(* calculateResults of src/unnamed/part_000: one definition per local, as  *)
(* a function of the locals it reads.                                      *)

heightInInches(heightFeet, heightInches) ==
  JSAdd(JSMul(parseInt(heightFeet), JSInt(12)), parseInt(heightInches))

heightInCm(hInches) == JSMul(hInches, JSNum(Dec(254, 2)))

heightInMeters(hCm) == JSDivPow10(hCm, 2)

weightInKg(weightLbs) == JSMul(parseFloat(weightLbs), JSNum(Dec(45359237, 8)))

\* weightInKg / (heightInMeters * heightInMeters): the quotient is kept as
\* numerator and denominator, with the root of the denominator.
JSDiv(num, den, root) ==
  CASE ~IsFinite(num) \/ ~IsFinite(den) -> NaN
    [] DecIsZero(den.d) /\ DecIsZero(num.d) -> NaN
    [] DecIsZero(den.d) /\ DecIsNeg(num.d) -> NegInfinity
    [] DecIsZero(den.d) -> Infinity
    [] OTHER -> [kind |-> "finite", num |-> num.d, den |-> den.d, root |-> root.d]

bmi(wKg, hMeters) == JSDiv(wKg, JSMul(hMeters, hMeters), hMeters)

\* b > t for a quotient b and an integer t.
BmiGreater(b, t) ==
  \/ b.kind = "Infinity"
  \/ b.kind = "finite" /\ DecLess(DecTimes(b.den, DecInt(t)), b.num)

baseHeight == 5 * 12

inchesOver5Feet(hInches) == JSSub(hInches, JSInt(baseHeight))

\* A variant that clamps short stature to the base weight.
ibwLbsClamped(gender, over) ==
  IF DecIsNeg(over.d)
  THEN (IF gender = "female" THEN JSInt(100) ELSE JSInt(106))
  ELSE IF gender = "female"
       THEN JSAdd(JSInt(100), JSMul(over, JSInt(5)))
       ELSE JSAdd(JSInt(106), JSMul(over, JSInt(6)))

ibwLbs(gender, over) ==
  IF gender = "female"
  THEN JSAdd(JSInt(100), JSMul(over, JSInt(5)))
  ELSE JSAdd(JSInt(106), JSMul(over, JSInt(6)))

ibwKg(ibw) == JSMul(ibw, JSNum(Dec(45359237, 8)))

\* A variant that tests the thresholds from the lowest up.
adjustmentFactorLowestFirst(b) ==
  IF BmiGreater(b, 30) THEN JSNum(Dec(35, 2))
  ELSE IF BmiGreater(b, 35) THEN JSNum(Dec(30, 2))
  ELSE IF BmiGreater(b, 40) THEN JSNum(Dec(25, 2))
  ELSE JSNum(Dec(40, 2))

adjustmentFactor(b) ==
  IF BmiGreater(b, 40) THEN JSNum(Dec(25, 2))
  ELSE IF BmiGreater(b, 35) THEN JSNum(Dec(30, 2))
  ELSE IF BmiGreater(b, 30) THEN JSNum(Dec(35, 2))
  ELSE JSNum(Dec(40, 2))

excessWeightKg(wKg, iKg) == JSSub(wKg, iKg)

\* A variant that adds the adjusted excess to the actual weight.
adjustedWeightKgFromWeight(iKg, factor, excess) ==
  JSAdd(JSAdd(iKg, excess), JSMul(excess, factor))

\* A variant that adjusts only a weight above the ideal one.
adjustedWeightKgAboveIdeal(iKg, factor, excess) ==
  IF DecIsNeg(excess.d) THEN iKg ELSE JSAdd(iKg, JSMul(excess, factor))

adjustedWeightKg(iKg, factor, excess) == JSAdd(iKg, JSMul(excess, factor))

\* A variant with the constants of the two genders exchanged.
bmrConstantsExchanged(gender, wKg, hCm, age) ==
  IF gender = "female"
  THEN JSAdd(JSSub(JSAdd(JSMul(wKg, JSInt(10)), JSMul(hCm, JSNum(Dec(625, 2)))),
                   JSMul(age, JSInt(5))),
             JSInt(5))
  ELSE JSSub(JSSub(JSAdd(JSMul(wKg, JSInt(10)), JSMul(hCm, JSNum(Dec(625, 2)))),
                   JSMul(age, JSInt(5))),
             JSInt(161))

bmr(gender, wKg, hCm, age) ==
  IF gender = "female"
  THEN JSSub(JSSub(JSAdd(JSMul(wKg, JSInt(10)), JSMul(hCm, JSNum(Dec(625, 2)))),
                   JSMul(age, JSInt(5))),
             JSInt(161))
  ELSE JSAdd(JSSub(JSAdd(JSMul(wKg, JSInt(10)), JSMul(hCm, JSNum(Dec(625, 2)))),
                   JSMul(age, JSInt(5))),
             JSInt(5))

\* A variant that multiplies the rounded bmr.
tdeeOfRoundedBmr(b, activityLevel) ==
  JSMul(MathRound(b), Lookup(activityFactors, activityLevel))

tdee(b, activityLevel) == JSMul(b, Lookup(activityFactors, activityLevel))

proteinLow(aKg) == MathRound(JSMul(aKg, JSNum(Dec(12, 1))))

\* A variant with the lower multiplier at the upper end.
proteinHighAsLow(aKg) == MathRound(JSMul(aKg, JSNum(Dec(12, 1))))

proteinHigh(aKg) == MathRound(JSMul(aKg, JSNum(Dec(16, 1))))

targetCalories(t, weightLossGoal) ==
  JSSub(t, Lookup(calorieDeficits, weightLossGoal))

\* `${proteinLow}-${proteinHigh}`
proteinRange(low, high) == ToChars(low) \o <<"-">> \o ToChars(high)

\* Math.round(bmi * 10) / 10
Abs(k) == IF k < 0 THEN -k ELSE k

bmiRounded(b) ==
  IF b.kind # "finite" THEN b
  ELSE JSDivPow10(JSInt(DecRoundRatio(DecTimes(b.num, DecInt(10)), b.den,
                                      Abs(BigToInt(b.root.n)))), 1)

\* A variant that cuts the fraction off: Math.floor in place of Math.round.
abwDisplayedFloor(aKg) ==
  MathRound(JSSub(JSMul(aKg, JSNum(Dec(220462, 5))), JSNum(Dec(5, 1))))

\* Math.round(adjustedWeightKg * 2.20462)
abwDisplayed(aKg) == MathRound(JSMul(aKg, JSNum(Dec(220462, 5))))

\* The locals of one call, section by section.
Converted(fd) ==
  [heightInInches |-> heightInInches(fd.heightFeet, fd.heightInches),
   weightInKg     |-> weightInKg(fd.weightLbs),
   age            |-> parseInt(fd.age),
   gender         |-> fd.gender,
   activityLevel  |-> fd.activityLevel,
   weightLossGoal |-> fd.weightLossGoal]

WithHeight(l) == l @@ [heightInCm |-> heightInCm(l.heightInInches)]

WithBmiAndIbw(l) ==
  l @@ [heightInMeters |-> heightInMeters(l.heightInCm),
        bmi            |-> bmi(l.weightInKg, heightInMeters(l.heightInCm)),
        ibwLbs         |-> ibwLbs(l.gender, inchesOver5Feet(l.heightInInches)),
        bmr            |-> bmr(l.gender, l.weightInKg, l.heightInCm, l.age)]

WithFactor(l) ==
  l @@ [ibwKg            |-> ibwKg(l.ibwLbs),
        adjustmentFactor |-> adjustmentFactor(l.bmi),
        tdee             |-> tdee(l.bmr, l.activityLevel)]

WithExcess(l) ==
  l @@ [excessWeightKg |-> excessWeightKg(l.weightInKg, l.ibwKg),
        targetCalories |-> targetCalories(l.tdee, l.weightLossGoal)]

WithAdjusted(l) ==
  l @@ [adjustedWeightKg |->
          adjustedWeightKg(l.ibwKg, l.adjustmentFactor, l.excessWeightKg)]

Locals(fd) == WithAdjusted(WithExcess(WithFactor(WithBmiAndIbw(WithHeight(Converted(fd))))))

\* A variant whose protein range is taken from the actual weight.
ResultsOfActualWeight(l) ==
  [bmr               |-> MathRound(l.bmr),
   tdee              |-> MathRound(l.tdee),
   targetCalories    |-> MathRound(l.targetCalories),
   proteinRange      |-> proteinRange(proteinLow(l.weightInKg),
                                      proteinHigh(l.weightInKg)),
   ibw               |-> MathRound(l.ibwLbs),
   abw               |-> abwDisplayed(l.adjustedWeightKg),
   bmi               |-> bmiRounded(l.bmi),
   adjustmentFactor  |-> l.adjustmentFactor,
   macroDistribution |-> [protein |-> "25-30%", carbs |-> "45-50%", fat |-> "25-30%"],
   conditionAdjustments |-> [protein |-> "", calories |-> "", notes |-> ""]]

\* The record handed to setResults.
ResultsOf(l) ==
  [bmr               |-> MathRound(l.bmr),
   tdee              |-> MathRound(l.tdee),
   targetCalories    |-> MathRound(l.targetCalories),
   proteinRange      |-> proteinRange(proteinLow(l.adjustedWeightKg),
                                      proteinHigh(l.adjustedWeightKg)),
   ibw               |-> MathRound(l.ibwLbs),
   abw               |-> abwDisplayed(l.adjustedWeightKg),
   bmi               |-> bmiRounded(l.bmi),
   adjustmentFactor  |-> l.adjustmentFactor,
   macroDistribution |-> [protein |-> "25-30%", carbs |-> "45-50%", fat |-> "25-30%"],
   conditionAdjustments |-> [protein |-> "", calories |-> "", notes |-> ""]]

calculateResults(fd) == ResultsOf(Locals(fd))

---------------------------------------------------------------------------
(* calculateResults of the second component of                             *)
(* src/app/components/NutritionCalculator.tsx: no BMI; adjusted body       *)
(* weight in lbs, only above 1.2 x IBW and with the fixed factor 0.4.      *)

GatedHeightInCm(heightFeet, heightInches) ==
  JSMul(JSAdd(JSMul(parseInt(heightFeet), JSInt(12)), parseInt(heightInches)),
        JSNum(Dec(254, 2)))

GatedWeightInKg(weightLbs) ==
  JSMul(parseFloat(weightLbs), JSNum(Dec(45359237, 8)))

\* formData.age is used as it is: a string, coerced by the product.
GatedBmr(gender, wKg, hCm, age) ==
  IF gender = "female"
  THEN JSSub(JSSub(JSAdd(JSMul(wKg, JSInt(10)), JSMul(hCm, JSNum(Dec(625, 2)))),
                   JSMul(ToNumber(age), JSInt(5))),
             JSInt(161))
  ELSE JSAdd(JSSub(JSAdd(JSMul(wKg, JSInt(10)), JSMul(hCm, JSNum(Dec(625, 2)))),
                   JSMul(ToNumber(age), JSInt(5))),
             JSInt(5))

GatedTdee(b, activityLevel) == JSMul(b, Lookup(activityFactors, activityLevel))

GatedTargetCalories(t, weightLossGoal) ==
  JSSub(t, Lookup(calorieDeficits, weightLossGoal))

actualHeight(heightFeet, heightInches) ==
  JSAdd(JSMul(parseInt(heightFeet), JSInt(12)), parseInt(heightInches))

GatedIbwLbs(gender, height) ==
  IF gender = "female"
  THEN JSAdd(JSInt(100), JSMul(JSSub(height, JSInt(baseHeight)), JSInt(5)))
  ELSE JSAdd(JSInt(106), JSMul(JSSub(height, JSInt(baseHeight)), JSInt(6)))

\* formData.weightLbs is compared and subtracted as it is: a string, coerced.
abwLbs(weightLbs, ibw) ==
  IF JSGreater(ToNumber(weightLbs), JSMul(ibw, JSNum(Dec(12, 1))))
  THEN JSAdd(ibw, JSMul(JSSub(ToNumber(weightLbs), ibw), JSNum(Dec(4, 1))))
  ELSE ibw

abwKg(aLbs) == JSMul(aLbs, JSNum(Dec(45359237, 8)))

GatedConverted(fd) ==
  [weightInKg |-> GatedWeightInKg(fd.weightLbs),
   heightInCm |-> GatedHeightInCm(fd.heightFeet, fd.heightInches),
   ibwLbs     |-> GatedIbwLbs(fd.gender, actualHeight(fd.heightFeet, fd.heightInches)),
   age |-> fd.age, weightLbs |-> fd.weightLbs, gender |-> fd.gender,
   activityLevel |-> fd.activityLevel, weightLossGoal |-> fd.weightLossGoal]

GatedWithBmr(l) ==
  l @@ [bmr    |-> GatedBmr(l.gender, l.weightInKg, l.heightInCm, l.age),
        abwLbs |-> abwLbs(l.weightLbs, l.ibwLbs)]

GatedWithTdee(l) ==
  l @@ [tdee  |-> GatedTdee(l.bmr, l.activityLevel),
        abwKg |-> abwKg(l.abwLbs)]

GatedWithTarget(l) ==
  l @@ [targetCalories |-> GatedTargetCalories(l.tdee, l.weightLossGoal)]

GatedLocals(fd) == GatedWithTarget(GatedWithTdee(GatedWithBmr(GatedConverted(fd))))

GatedResultsOf(l) ==
  [bmr            |-> MathRound(l.bmr),
   tdee           |-> MathRound(l.tdee),
   targetCalories |-> MathRound(l.targetCalories),
   proteinRange   |-> proteinRange(proteinLow(l.abwKg), proteinHigh(l.abwKg)),
   ibw            |-> MathRound(l.ibwLbs),
   abw            |-> MathRound(l.abwLbs)]

GatedCalculateResults(fd) == GatedResultsOf(GatedLocals(fd))

---------------------------------------------------------------------------
(* The component: its state and its handlers.                              *)

Variants == {"tiered", "gated"}

\* The options of the three selects.
GenderOptions == {"female", "male"}

ActivityOptions == {"sedentary", "light", "moderate", "very"}

GoalOptions == {"conservative", "moderate", "aggressive"}

\* The checkboxes that are toggled.
Conditions == {"diabetes", "kidney"}

\* useState's initial values.
InitialFormData ==
  [age |-> <<>>, weightLbs |-> <<>>, heightFeet |-> <<>>, heightInches |-> <<>>,
   gender |-> "female", activityLevel |-> "light", conditions |-> <<>>,
   weightLossGoal |-> "moderate"]

\* What is typed into the number inputs in the runs of the component.
AgeTyped == {IntToChars(35)}

WeightTyped == {IntToChars(w) : w \in {120, 250}}

FeetTyped == {IntToChars(f) : f \in {0, 5}}

InchesTyped == {IntToChars(4)}

ActivityPicked == {"light", "very"}

GoalPicked == {"moderate", "aggressive"}

Init ==
  /\ variant \in Variants
  /\ formData = InitialFormData
  /\ results = null
  /\ showReferences = FALSE
  /\ submitted = null
  /\ toggledOdd = {}

\* onChange of an input or select: setFormData({...formData, field: value}).
SetAge ==
  /\ \E v \in AgeTyped : formData' = [formData EXCEPT !.age = v]
  /\ UNCHANGED <<variant, results, showReferences, submitted, toggledOdd>>

SetWeightLbs ==
  /\ \E v \in WeightTyped : formData' = [formData EXCEPT !.weightLbs = v]
  /\ UNCHANGED <<variant, results, showReferences, submitted, toggledOdd>>

SetHeightFeet ==
  /\ \E v \in FeetTyped : formData' = [formData EXCEPT !.heightFeet = v]
  /\ UNCHANGED <<variant, results, showReferences, submitted, toggledOdd>>

SetHeightInches ==
  /\ \E v \in InchesTyped : formData' = [formData EXCEPT !.heightInches = v]
  /\ UNCHANGED <<variant, results, showReferences, submitted, toggledOdd>>

SetGender ==
  /\ \E v \in GenderOptions : formData' = [formData EXCEPT !.gender = v]
  /\ UNCHANGED <<variant, results, showReferences, submitted, toggledOdd>>

SetActivityLevel ==
  /\ \E v \in ActivityPicked : formData' = [formData EXCEPT !.activityLevel = v]
  /\ UNCHANGED <<variant, results, showReferences, submitted, toggledOdd>>

SetWeightLossGoal ==
  /\ \E v \in GoalPicked : formData' = [formData EXCEPT !.weightLossGoal = v]
  /\ UNCHANGED <<variant, results, showReferences, submitted, toggledOdd>>

\* prev.conditions.includes(condition)
Includes(list, x) == \E i \in 1..Len(list) : list[i] = x

\* A variant that drops the last entry, whatever it is.
WithoutLast(list, x) == SubSeq(list, 1, Len(list) - 1)

\* prev.conditions.filter(c => c !== condition)
Without(list, x) == SelectSeq(list, LAMBDA c : c # x)

\* The checkboxes exist in the tiered component only.
handleConditionChange ==
  /\ variant = "tiered"
  /\ \E condition \in Conditions :
       /\ formData' = [formData EXCEPT !.conditions =
                         IF Includes(formData.conditions, condition)
                         THEN Without(formData.conditions, condition)
                         ELSE Append(formData.conditions, condition)]
       /\ toggledOdd' = IF condition \in toggledOdd
                        THEN toggledOdd \ {condition}
                        ELSE toggledOdd \cup {condition}
  /\ UNCHANGED <<variant, results, showReferences, submitted>>

\* The four number inputs are `required`: the browser submits the form, and so
\* calls onSubmit, only when each holds a number.
FormIsValid(fd) ==
  /\ IsFinite(parseInt(fd.age))
  /\ IsFinite(parseInt(fd.weightLbs))
  /\ IsFinite(parseInt(fd.heightFeet))
  /\ IsFinite(parseInt(fd.heightInches))

\* A variant that keeps the results of an earlier submit.
SubmitKeepingResults ==
  /\ FormIsValid(formData)
  /\ results' = IF results # null THEN results
                ELSE IF variant = "tiered" THEN calculateResults(formData)
                ELSE GatedCalculateResults(formData)
  /\ submitted' = formData
  /\ UNCHANGED <<variant, formData, showReferences, toggledOdd>>

\* onSubmit: e.preventDefault(); calculateResults().
Submit ==
  /\ FormIsValid(formData)
  /\ results' = IF variant = "tiered" THEN calculateResults(formData)
                ELSE GatedCalculateResults(formData)
  /\ submitted' = formData
  /\ UNCHANGED <<variant, formData, showReferences, toggledOdd>>

\* The references button is rendered with the results of the tiered component.
ToggleReferences ==
  /\ variant = "tiered"
  /\ results # null
  /\ showReferences' = ~showReferences
  /\ UNCHANGED <<variant, formData, results, submitted, toggledOdd>>

\* The Condition-Specific Adjustments section of the rendered results: one
\* item for each entry of formData.conditions, read at the time of
\* rendering; no item when no results are rendered or the list is empty.
ConditionAdjustmentsSection ==
  IF results # null /\ Len(formData.conditions) > 0
  THEN [i \in 1..Len(formData.conditions) |->
          [condition |-> formData.conditions[i],
           protein   |-> CONDITION_ADJUSTMENTS[formData.conditions[i]].protein,
           calories  |-> CONDITION_ADJUSTMENTS[formData.conditions[i]].calories,
           notes     |-> CONDITION_ADJUSTMENTS[formData.conditions[i]].notes]]
  ELSE <<>>

Next ==
  \/ SetAge
  \/ SetWeightLbs
  \/ SetHeightFeet
  \/ SetHeightInches
  \/ SetGender
  \/ SetActivityLevel
  \/ SetWeightLossGoal
  \/ handleConditionChange
  \/ Submit
  \/ ToggleReferences

Spec == Init /\ [][Next]_vars

---------------------------------------------------------------------------
(* calculateResults as a function of the form: every form of the input     *)
(* grid is submitted once.                                                 *)

AgeInputs == {IntToChars(a) : a \in {35, 60}}

WeightInputs == {IntToChars(w) : w \in {1, 100, 120, 130, 180, 220, 250}}

FeetInputs == {IntToChars(f) : f \in {0, 3} \cup (5..MaxFeet)}

InchesInputs == {IntToChars(i) : i \in {0, 4}}

\* formData.activityLevel is a string: the lookup is given a key the table
\* does not hold, too.
ActivityInputs == ActivityOptions \cup {"extreme"}

\* The lists of distinct conditions, in every order of selection.
ConditionLists ==
  {s \in UNION {[1..n -> Conditions] : n \in 0..Cardinality(Conditions)} :
     \A i, j \in 1..Len(s) : i # j => s[i] # s[j]}

InitCalc ==
  /\ variant \in Variants
  /\ \E a \in AgeInputs, w \in WeightInputs, f \in FeetInputs, i \in InchesInputs,
        g \in GenderOptions, act \in ActivityInputs, goal \in GoalOptions,
        cs \in ConditionLists :
       /\ variant = "gated" => cs = <<>>
       /\ formData = [age |-> a, weightLbs |-> w, heightFeet |-> f,
                      heightInches |-> i, gender |-> g, activityLevel |-> act,
                      conditions |-> cs, weightLossGoal |-> goal]
  /\ results = null
  /\ showReferences = FALSE
  /\ submitted = null
  /\ toggledOdd = {formData.conditions[i] : i \in 1..Len(formData.conditions)}

NextCalc == Submit

SpecCalc == InitCalc /\ [][NextCalc]_vars

---------------------------------------------------------------------------
(* The properties.  They are stated over the last submitted form and the   *)
(* stored results, with the expected values worked out in whole numbers    *)
(* of pounds and inches.                                                   *)

\* The whole number a number input holds.
FormInt(s) == BigToInt(parseInt(s).d.n)

HeightOf(fd) == 12 * FormInt(fd.heightFeet) + FormInt(fd.heightInches)

WeightOf(fd) == FormInt(fd.weightLbs)

\* Devine's ideal body weight in lbs.
IbwOf(fd) ==
  IF fd.gender = "female" THEN 100 + 5 * (HeightOf(fd) - 60)
  ELSE 106 + 6 * (HeightOf(fd) - 60)

\* BMI > t, cross-multiplied: lbs * 0.45359237 > t * (in * 0.0254)^2.
BmiAbove(fd, t) ==
  BigLess(BigMulWide(BigFromInt(t * HeightOf(fd) * HeightOf(fd)), 64516),
          BigMulWide(BigFromInt(WeightOf(fd)), 45359237))

\* The tiered adjustment factor, in hundredths.
FactorOf(fd) ==
  IF BmiAbove(fd, 40) THEN 25
  ELSE IF BmiAbove(fd, 35) THEN 30
  ELSE IF BmiAbove(fd, 30) THEN 35
  ELSE 40

\* IBW + factor * (weight - IBW), in hundredths of a lb.
TieredAbwOf(fd) == 100 * IbwOf(fd) + FactorOf(fd) * (WeightOf(fd) - IbwOf(fd))

\* IBW + 0.4 * (weight - IBW) above 1.2 * IBW and IBW otherwise, in
\* hundredths of a lb.
GatedAbwOf(fd) ==
  IF 10 * WeightOf(fd) > 12 * IbwOf(fd)
  THEN 100 * IbwOf(fd) + 40 * (WeightOf(fd) - IbwOf(fd))
  ELSE 100 * IbwOf(fd)

AbwOf(v, fd) == IF v = "tiered" THEN TieredAbwOf(fd) ELSE GatedAbwOf(fd)

\* Hundredths of a lb as kg.
KgOfLbs(hundredths) ==
  [n |-> BigMulWide(BigFromInt(hundredths), 45359237), e |-> 10]

\* "low-high" with low = round(1.2 * kg) and high = round(1.6 * kg).
RangeOfKg(kg) ==
  IntToChars(DecRound(DecTimes(kg, Dec(12, 1)))) \o <<"-">>
    \o IntToChars(DecRound(DecTimes(kg, Dec(16, 1))))

\* The two numbers of a "low-high" string.
SeparatorOf(s) ==
  CHOOSE i \in 2..Len(s) : s[i] = "-" /\ \A j \in 2..(i - 1) : s[j] # "-"

RangeLow(s) == FormInt(s)

RangeHigh(s) == FormInt(SubSeq(s, SeparatorOf(s) + 1, Len(s)))

\* The form of the worked example: female, 35, 180 lbs, 5 ft 4 in, light
\* activity, moderate goal.
IsExampleForm(fd) ==
  /\ fd.gender = "female"
  /\ fd.age = <<"3", "5">>
  /\ fd.weightLbs = <<"1", "8", "0">>
  /\ fd.heightFeet = <<"5">>
  /\ fd.heightInches = <<"4">>
  /\ fd.activityLevel = "light"
  /\ fd.weightLossGoal = "moderate"

C2_NonPositiveHeightRejected ==
  /\ (submitted # null /\ HeightOf(submitted) <= 0) => results = null
  /\ (results # null /\ variant = "tiered") => IsFinite(results.bmi)

ResultFields ==
  {"bmr", "tdee", "targetCalories", "proteinRange", "ibw", "abw", "bmi",
   "adjustmentFactor", "macroDistribution", "conditionAdjustments"}

NoAdjustments == [protein |-> "", calories |-> "", notes |-> ""]

\* C3: a stored result is complete: it has all ten fields, its numbers are
\* finite, and its condition adjustments are no empty placeholder when
\* conditions were selected.
C3_ResultsComplete ==
  results # null =>
    /\ DOMAIN results = ResultFields
    /\ IsFinite(results.bmr) /\ IsFinite(results.tdee)
    /\ IsFinite(results.targetCalories)
    /\ IsFinite(results.ibw) /\ IsFinite(results.abw)
    /\ IsFinite(results.bmi) /\ IsFinite(results.adjustmentFactor)
    /\ submitted.conditions # <<>> => results.conditionAdjustments # NoAdjustments

\* The entries a stored conditionAdjustments holds: the record of empty
\* strings is no entry.
AdjustmentEntries(r) ==
  IF r.conditionAdjustments = NoAdjustments THEN <<>>
  ELSE <<r.conditionAdjustments>>

\* The entries CONDITION_ADJUSTMENTS gives for a list of conditions.
TableEntries(conditions) ==
  [i \in 1..Len(conditions) |->
     [protein  |-> CONDITION_ADJUSTMENTS[conditions[i]].protein,
      calories |-> CONDITION_ADJUSTMENTS[conditions[i]].calories,
      notes    |-> CONDITION_ADJUSTMENTS[conditions[i]].notes]]

\* C4: the stored conditionAdjustments holds one entry for each condition
\* selected at the submit, in the order of selection, each with the strings
\* of CONDITION_ADJUSTMENTS.
C4_AdjustmentsPerCondition ==
  (results # null /\ variant = "tiered") =>
    AdjustmentEntries(results) = TableEntries(submitted.conditions)

\* A BMI of exactly t.
BmiExactly(t) ==
  [kind |-> "finite", num |-> DecInt(t), den |-> DecInt(1), root |-> DecInt(1)]

\* The factor the tiered component computes for another weight at the
\* submitted height.
FactorAtWeight(fd, w) ==
  adjustmentFactor(bmi(weightInKg(w),
                       heightInMeters(heightInCm(
                         heightInInches(fd.heightFeet, fd.heightInches)))))

\* C5: the stored adjustment factor is 0.25 for a BMI above 40, 0.30 for a
\* BMI above 35 up to 40, 0.35 for a BMI above 30 up to 35 and 0.40 up to
\* 30, the boundaries 30, 35 and 40 falling in the lower tier, and a
\* heavier person of the same height never gets a larger factor.
C5_FactorTiers ==
  /\ adjustmentFactor(BmiExactly(30)) = JSNum(Dec(40, 2))
  /\ adjustmentFactor(BmiExactly(35)) = JSNum(Dec(35, 2))
  /\ adjustmentFactor(BmiExactly(40)) = JSNum(Dec(30, 2))
  /\ (results # null /\ variant = "tiered" /\ HeightOf(submitted) > 0) =>
       /\ results.adjustmentFactor = JSNum(Dec(FactorOf(submitted), 2))
       /\ \A w \in WeightInputs :
            FormInt(w) >= WeightOf(submitted) =>
              ~DecLess(results.adjustmentFactor.d, FactorAtWeight(submitted, w).d)

\* A result of the tiered component in the tier of a BMI above 35 up to 40.
C5_Witness ==
  /\ results # null /\ variant = "tiered" /\ HeightOf(submitted) > 0
  /\ BmiAbove(submitted, 35) /\ ~BmiAbove(submitted, 40)
  /\ results.adjustmentFactor = JSNum(Dec(30, 2))

\* C6 as stated: the worked example gives bmr 1497, tdee 2058 and
\* targetCalories 1558.
C6_ExampleAsStated ==
  (results # null /\ IsExampleForm(submitted)) =>
    /\ results.bmr = JSInt(1497)
    /\ results.tdee = JSInt(2058)
    /\ results.targetCalories = JSInt(1558)

\* C6: the worked example (female, 35, 180 lbs, 5 ft 4 in, light activity,
\* moderate goal) gives bmr 1496, tdee 2058 and targetCalories 1558.
C6_Example ==
  (results # null /\ IsExampleForm(submitted)) =>
    /\ results.bmr = JSInt(1496)
    /\ results.tdee = JSInt(2058)
    /\ results.targetCalories = JSInt(1558)

C6_Witness ==
  results # null /\ IsExampleForm(submitted) /\ variant = "tiered"

\* C7: the stored ideal body weight is 100 + 5 * (h - 60) lbs for a woman
\* and 106 + 6 * (h - 60) lbs for a man of h inches, below 60 inches too,
\* and 178 lbs for a man of 6 ft 0 in.
C7_IdealBodyWeight ==
  results # null =>
    /\ results.ibw = JSInt(IbwOf(submitted))
    /\ (submitted.gender = "male" /\ HeightOf(submitted) = 72)
         => results.ibw = JSInt(178)
    /\ (submitted.gender = "female" /\ HeightOf(submitted) < 60)
         => results.ibw = JSInt(100 - 5 * (60 - HeightOf(submitted)))
    /\ (submitted.gender = "male" /\ HeightOf(submitted) < 60)
         => results.ibw = JSInt(106 - 6 * (60 - HeightOf(submitted)))

\* A man below 5 ft, with an ideal body weight below the base weight.
C7_Witness ==
  /\ results # null /\ variant = "tiered"
  /\ submitted.gender = "male"
  /\ HeightOf(submitted) > 0 /\ HeightOf(submitted) < 60
  /\ DecLess(results.ibw.d, DecInt(106))

\* Math.round of hundredths of a lb, as kg, as lbs again.
DisplayedOfLbs(hundredths) ==
  DecRound(DecTimes(KgOfLbs(hundredths), Dec(220462, 5)))

\* C8 as stated: in both components the adjusted body weight is
\* IBW + factor * (weight - IBW) with the BMI-tiered factor, for every
\* input, and the stored abw and protein range are those of that weight.
C8_OneRuleEverywhere ==
  results # null =>
    /\ results.proteinRange = RangeOfKg(KgOfLbs(TieredAbwOf(submitted)))
    /\ variant = "tiered"
         => results.abw = JSInt(DisplayedOfLbs(TieredAbwOf(submitted)))
    /\ variant = "gated"
         => results.abw = JSInt(DecRound([n |-> BigFromInt(TieredAbwOf(submitted)),
                                          e |-> 2]))

\* C8: the tiered component computes the adjusted body weight as
\* IBW + factor * (weight - IBW) with the BMI-tiered factor, for every
\* input, a weight at or below IBW included; the other component adjusts
\* only a weight above 1.2 * IBW, with the factor 0.4, and takes IBW
\* otherwise.
C8_AdjustedBodyWeight ==
  results # null =>
    /\ variant = "tiered" =>
         /\ results.abw = JSInt(DisplayedOfLbs(TieredAbwOf(submitted)))
         /\ results.proteinRange = RangeOfKg(KgOfLbs(TieredAbwOf(submitted)))
    /\ variant = "gated" =>
         /\ results.abw = JSInt(DecRound([n |-> BigFromInt(GatedAbwOf(submitted)),
                                          e |-> 2]))
         /\ results.proteinRange = RangeOfKg(KgOfLbs(GatedAbwOf(submitted)))

\* A result of the tiered component for a weight below IBW.
C8_Witness ==
  /\ results # null /\ variant = "tiered"
  /\ HeightOf(submitted) > 0
  /\ WeightOf(submitted) < IbwOf(submitted)
  /\ TieredAbwOf(submitted) < 100 * IbwOf(submitted)

AbwIsPositive(v, fd) == AbwOf(v, fd) > 0

\* ABW >= 2.5 kg.
AbwIsAtLeast(v, fd) == ~DecLess(KgOfLbs(AbwOf(v, fd)), Dec(25, 1))

\* C9 as stated: for a positive adjusted body weight the two numbers of the
\* stored protein range satisfy low < high.
C9_StrictRange ==
  (results # null /\ AbwIsPositive(variant, submitted)) =>
    RangeLow(results.proteinRange) < RangeHigh(results.proteinRange)

\* C9: for a positive adjusted body weight the two numbers of the stored
\* protein range satisfy low <= high, and low < high when the adjusted
\* body weight is 2.5 kg or more.
C9_OrderedRange ==
  (results # null /\ AbwIsPositive(variant, submitted)) =>
    /\ RangeLow(results.proteinRange) <= RangeHigh(results.proteinRange)
    /\ AbwIsAtLeast(variant, submitted) =>
         RangeLow(results.proteinRange) < RangeHigh(results.proteinRange)

C9_Witness ==
  /\ results # null
  /\ AbwIsPositive(variant, submitted)
  /\ AbwIsAtLeast(variant, submitted)
  /\ RangeLow(results.proteinRange) + 1 < RangeHigh(results.proteinRange)

\* A form of another weight and other inches.
OtherForm(fd, w, i) == [fd EXCEPT !.weightLbs = w, !.heightInches = i]

\* The protein range the mounted component computes for a form.
RangeFor(v, fd) ==
  IF v = "tiered" THEN calculateResults(fd).proteinRange
  ELSE GatedCalculateResults(fd).proteinRange

\* C10: the stored protein range is round(1.2 * abwKg) and
\* round(1.6 * abwKg) of the adjusted body weight whose lbs value is stored
\* as abw, and of nothing else: a form of equal adjusted body weight and
\* another actual or ideal weight gets the same range.
C10_RangeFromAbw ==
  results # null =>
    /\ results.proteinRange = RangeOfKg(KgOfLbs(AbwOf(variant, submitted)))
    /\ variant = "tiered"
         => results.abw = JSInt(DisplayedOfLbs(AbwOf(variant, submitted)))
    /\ variant = "gated"
         => results.abw = JSInt(DecRound([n |-> BigFromInt(AbwOf(variant, submitted)),
                                          e |-> 2]))
    /\ \A w \in WeightInputs, i \in InchesInputs :
         AbwOf(variant, OtherForm(submitted, w, i)) = AbwOf(variant, submitted)
           => RangeFor(variant, OtherForm(submitted, w, i)) = results.proteinRange

\* A result for 130 lbs at 5 ft 0 in, when a lighter and taller person of
\* the input grid has the same adjusted body weight.
C10_Witness ==
  /\ results # null
  /\ submitted.weightLbs = <<"1", "3", "0">>
  /\ submitted.heightFeet = <<"5">> /\ submitted.heightInches = <<"0">>
  /\ \E w \in WeightInputs, i \in InchesInputs :
       /\ WeightOf(OtherForm(submitted, w, i)) # WeightOf(submitted)
       /\ IbwOf(OtherForm(submitted, w, i)) # IbwOf(submitted)
       /\ AbwOf(variant, OtherForm(submitted, w, i)) = AbwOf(variant, submitted)

\* The record the mounted component computes for a form.
ResultsFor(v, fd) ==
  IF v = "tiered" THEN calculateResults(fd) ELSE GatedCalculateResults(fd)

\* C11: the stored results are those of the last submitted form alone:
\* whatever edits, toggles and earlier submits came before, the record is
\* the one a fresh calculation gives for that form, so two submits of the
\* same form store the same record.
C11_HistoryIndependent ==
  results # null => results = ResultsFor(variant, submitted)

\* Results of a form that was edited before the submit, with the form
\* edited again, a condition toggled and the references opened after it.
C11_Witness ==
  /\ results # null /\ variant = "tiered"
  /\ submitted.gender = "male" /\ formData.gender = "female"
  /\ submitted.weightLbs # formData.weightLbs
  /\ formData.conditions # <<>>
  /\ showReferences

\* The lbs of a weight field as kg and as lbs again, unrounded.
LbsOfKgOfLbs(w) == JSMul(weightInKg(w), JSNum(Dec(220462, 5)))

SameNumber(x, y) ==
  IsFinite(x) /\ IsFinite(y) /\ ~DecLess(x.d, y.d) /\ ~DecLess(y.d, x.d)

\* y <= x and x - y <= 2 * x / 10^6.
WithinTwoPerMillion(y, x) ==
  /\ ~DecLess(x.d, y.d)
  /\ ~DecLess(x.d, DecTimes(DecSub(x.d, y.d), DecInt(500000)))

\* C12 as stated: a weight in lbs taken to kg with 0.45359237 and back to
\* lbs with 2.20462 is the original weight, and when the weight equals the
\* ideal body weight the stored abw equals the stored ibw.
C12_ExactRoundTrip ==
  results # null =>
    /\ SameNumber(LbsOfKgOfLbs(submitted.weightLbs), parseFloat(submitted.weightLbs))
    /\ WeightOf(submitted) = IbwOf(submitted) => results.abw = results.ibw

\* C12: a whole number of lbs taken to kg with 0.45359237 and back to lbs
\* with 2.20462 falls short of the original by at most two parts in a
\* million, and Math.round of it is the original weight; when the weight
\* equals the ideal body weight the stored abw equals the stored ibw.
C12_RoundTripToTheLb ==
  results # null =>
    /\ WithinTwoPerMillion(LbsOfKgOfLbs(submitted.weightLbs),
                           parseFloat(submitted.weightLbs))
    /\ abwDisplayed(weightInKg(submitted.weightLbs)) = JSInt(WeightOf(submitted))
    /\ abwDisplayed(ibwKg(JSInt(IbwOf(submitted)))) = JSInt(IbwOf(submitted))
    /\ WeightOf(submitted) = IbwOf(submitted) => results.abw = results.ibw

\* A result of the tiered component for a weight equal to the ideal one.
C12_Witness ==
  /\ results # null /\ variant = "tiered"
  /\ WeightOf(submitted) = IbwOf(submitted)
  /\ results.abw = JSInt(WeightOf(submitted))
  /\ results.ibw = JSInt(WeightOf(submitted))

\* Mifflin-St Jeor from lbs and inches, unrounded:
\* 10 * 0.45359237 * lbs + 6.25 * 2.54 * in - 5 * age - 161 or + 5.
BmrOf(fd) ==
  DecAdd(DecAdd(DecTimes(Dec(45359237, 8), DecInt(10 * WeightOf(fd))),
                DecTimes(Dec(15875, 3), DecInt(HeightOf(fd)))),
         DecInt((IF fd.gender = "female" THEN -161 ELSE 5) - 5 * FormInt(fd.age)))

\* The unrounded bmr times the activity factor.
TdeeOf(fd) == DecTimes(BmrOf(fd), activityFactors[fd.activityLevel].d)

DeficitOf(fd) ==
  CASE fd.weightLossGoal = "conservative" -> 250
    [] fd.weightLossGoal = "moderate" -> 500
    [] fd.weightLossGoal = "aggressive" -> 750

\* C13: the stored tdee is the rounded product of the unrounded bmr and
\* the activity factor, the stored targetCalories is the rounded
\* difference of the unrounded tdee and the deficit, and the stored
\* targetCalories is the stored tdee less the deficit of 250, 500 or 750.
C13_RoundedOnce ==
  results # null =>
    /\ submitted.activityLevel \in ActivityOptions =>
         /\ results.tdee = JSInt(DecRound(TdeeOf(submitted)))
         /\ results.targetCalories =
              JSInt(DecRound(DecSub(TdeeOf(submitted), DecInt(DeficitOf(submitted)))))
    /\ results.targetCalories = JSSub(results.tdee, JSInt(DeficitOf(submitted)))

\* A result whose tdee differs from the rounded product of the rounded bmr
\* and the activity factor.
C13_Witness ==
  /\ results # null /\ variant = "tiered"
  /\ submitted.activityLevel \in ActivityOptions
  /\ results.tdee #
       JSInt(DecRound(DecTimes(DecInt(DecRound(BmrOf(submitted))),
                               activityFactors[submitted.activityLevel].d)))
  /\ results.targetCalories = JSSub(results.tdee, JSInt(DeficitOf(submitted)))

\* The conditions the rendered section lists.
ConditionsShown ==
  [i \in 1..Len(ConditionAdjustmentsSection) |->
     ConditionAdjustmentsSection[i].condition]

\* C14: while results are displayed, the Condition-Specific Adjustments
\* section lists exactly the conditions that were selected at the submit
\* that produced them, whatever was toggled since.
C14_SectionOfTheSubmit ==
  results # null => ConditionsShown = submitted.conditions

Tags(list) == {list[i] : i \in 1..Len(list)}

NoDuplicates(list) == \A i, j \in 1..Len(list) : i # j => list[i] # list[j]

PositionIn(list, x) == CHOOSE i \in 1..Len(list) : list[i] = x

\* One call of the handler on a list.
Toggled(list, c) ==
  IF Includes(list, c) THEN Without(list, c) ELSE Append(list, c)

\* The list holds each tag once, holds the tags toggled an odd number of
\* times, and holds the same tags again after two toggles of one tag.
ConditionsAreTheOddOnes ==
  /\ NoDuplicates(formData.conditions)
  /\ Tags(formData.conditions) = toggledOdd
  /\ \A c \in Conditions :
       Tags(Toggled(Toggled(formData.conditions, c), c)) = Tags(formData.conditions)

\* A step that changes the list changes no other field, keeps the order
\* of the tags that stay and puts a new tag last.
ToggleKeepsOrder ==
  formData'.conditions # formData.conditions =>
    /\ [formData' EXCEPT !.conditions = formData.conditions] = formData
    /\ \A a, b \in Tags(formData.conditions) \cap Tags(formData'.conditions) :
         PositionIn(formData.conditions, a) < PositionIn(formData.conditions, b)
           <=> PositionIn(formData'.conditions, a) < PositionIn(formData'.conditions, b)
    /\ \A c \in Tags(formData'.conditions) \ Tags(formData.conditions) :
         formData'.conditions[Len(formData'.conditions)] = c

\* C15: from the empty list on, formData.conditions holds no tag twice,
\* holds exactly the tags toggled an odd number of times, in the order of
\* their most recent selection; two toggles of one tag in a row give the
\* same set, and a toggle changes no other form field.
C15_Toggles == []ConditionsAreTheOddOnes /\ [][ToggleKeepsOrder]_vars

\* A list in another order than that of the checkboxes.
C15_Witness ==
  /\ formData.conditions = <<"kidney", "diabetes">>
  /\ toggledOdd = {"diabetes", "kidney"}

LeqNumber(x, y) == IsFinite(x) /\ IsFinite(y) /\ ~DecLess(y.d, x.d)

\* min(a, b) <= x <= max(a, b)
BetweenNumbers(x, a, b) ==
  \/ LeqNumber(a, x) /\ LeqNumber(x, b)
  \/ LeqNumber(b, x) /\ LeqNumber(x, a)

\* The unrounded locals of the tiered component.
TieredAbwBetween(l) == BetweenNumbers(l.adjustedWeightKg, l.ibwKg, l.weightInKg)

TieredAbwIsIbwOnlyAtIbw(l) ==
  SameNumber(l.adjustedWeightKg, l.ibwKg) <=> SameNumber(l.weightInKg, l.ibwKg)

\* The unrounded locals of the gated component.
GatedAbwBetween(l) == BetweenNumbers(l.abwKg, ibwKg(l.ibwLbs), l.weightInKg)

GatedAbwIsIbwOnlyAtIbw(l) ==
  SameNumber(l.abwKg, ibwKg(l.ibwLbs)) <=> SameNumber(l.weightInKg, ibwKg(l.ibwLbs))

GatedAbwIsIbwAtIbw(l) ==
  SameNumber(l.weightInKg, ibwKg(l.ibwLbs)) => SameNumber(l.abwKg, ibwKg(l.ibwLbs))

GatedAbwIsIbwUpToGate(l, fd) ==
  SameNumber(l.abwKg, ibwKg(l.ibwLbs)) <=> 10 * WeightOf(fd) <= 12 * IbwOf(fd)

\* C16 as stated: for a positive weight and height, in both components,
\* the adjusted body weight lies between the ideal and the actual weight,
\* and equals the ideal weight exactly when the actual weight does.
C16_BetweenAndEqualOnlyAtIbw ==
  (results # null /\ HeightOf(submitted) > 0 /\ WeightOf(submitted) > 0) =>
    IF variant = "tiered"
    THEN /\ TieredAbwBetween(Locals(submitted))
         /\ TieredAbwIsIbwOnlyAtIbw(Locals(submitted))
    ELSE /\ GatedAbwBetween(GatedLocals(submitted))
         /\ GatedAbwIsIbwOnlyAtIbw(GatedLocals(submitted))

\* C16: for a positive weight and height, in both components, the adjusted
\* body weight lies between the ideal and the actual weight and equals the
\* ideal weight when the actual weight does; in the tiered component only
\* then, in the gated component for every weight up to 1.2 * IBW.
C16_BetweenIbwAndWeight ==
  (results # null /\ HeightOf(submitted) > 0 /\ WeightOf(submitted) > 0) =>
    IF variant = "tiered"
    THEN /\ TieredAbwBetween(Locals(submitted))
         /\ TieredAbwIsIbwOnlyAtIbw(Locals(submitted))
    ELSE /\ GatedAbwBetween(GatedLocals(submitted))
         /\ GatedAbwIsIbwAtIbw(GatedLocals(submitted))
         /\ GatedAbwIsIbwUpToGate(GatedLocals(submitted), submitted)

\* A result of the tiered component for a weight above the ideal one, the
\* stored abw strictly between the two.
C16_Witness ==
  /\ results # null /\ variant = "tiered"
  /\ HeightOf(submitted) > 0
  /\ IbwOf(submitted) > 0 /\ WeightOf(submitted) > IbwOf(submitted)
  /\ DecLess(results.ibw.d, results.abw.d)
  /\ DecLess(results.abw.d, DecInt(WeightOf(submitted)))

====
